---- MODULE Spec2Model ----
(***************************************************************************)
(* SCI2FB: conversion of a Sierra SCI0 FB-01 patch resource into one or    *)
(* two sysex bank files (src/SCI2FB.cpp).  One run of main() is modelled   *)
(* step by step; chars are kept as raw bytes 0..255 and promoted to int    *)
(* the way the build does it (plain char signed or unsigned).              *)
(***************************************************************************)
EXTENDS Integers, Sequences, FiniteSets, TLC

VARIABLES
    charSigned,   \* the build: is plain char a signed type
    patfile,      \* contents of the input patch file, bytes 0..255
    output_bank,  \* destination name, extension already dropped (main, line 78)
    fs,           \* the three possible destination files: a, b (two banks), s (one bank)
    fs0,          \* the destination files as they were when this run started
    answers,      \* what the user has typed at the overwrite prompts of this run
    pc,           \* position of main()
    outcome,      \* how the run ended ("running" until then)
    titleOffset,  \* main: streamoff titleOffset
    length,       \* main: streamoff length
    nVoices,      \* main: int nVoices
    data,         \* main: vector<char> data
    splitData1,   \* main: vector<char> splitData1
    splitData2,   \* main: vector<char> splitData2
    run,          \* number of the current invocation of the program
    prevfile      \* the input file of the previous invocation

vars == <<charSigned, patfile, output_bank, fs, fs0, answers, pc, outcome,
          titleOffset, length, nVoices, data, splitData1, splitData2, run, prevfile>>

(***************************************************************************)
(* Program constants                                                       *)
(***************************************************************************)
HeaderId == 137          \* 0x89
SepFirst == 171          \* 0xAB
SepSecond == 205         \* 0xCD
OneBankSize == 3074
TwoBankSize == 6148
SepAddress == 3074       \* 0xC02
BankVoices == 48
AllVoices == 96
VoiceBytes == 64
PacketSize == 131
HeaderSize == 74
InfoPacketSize == 32
EndSysex == 247          \* 0xF7
SpaceChar == 32          \* 0x20

(***************************************************************************)
(* Bounds of the model                                                     *)
(***************************************************************************)
MaxNameLen == 8          \* longest destination name tried
NumPatterns == 2         \* number of voice-payload fillings tried
MaxRuns == 3             \* invocations of the program in one behaviour

(***************************************************************************)
(* C arithmetic on chars and ints                                          *)
(***************************************************************************)
\* integral promotion of a stored char
CharToInt(b) == IF charSigned /\ b >= 128 THEN b - 256 ELSE b

\* conversion of an int to a stored char / unsigned char
IntToChar(x) == x % 256

\* x & 0x0F, x >> 4, ~x on int (two's complement, arithmetic shift)
And0F(x) == x % 16
Shr4(x) == x \div 16
BitNot(x) == (-x) - 1
And7F(x) == x % 128
AndFF(x) == x % 256

\* toupper in the "C" locale
toupper(c) == IF c >= 97 /\ c <= 122 THEN c - 32 ELSE c

NoFile == <<-1>>
Exists(f) == f # NoFile

(***************************************************************************)
(* Input files and destination names tried                                 *)
(***************************************************************************)
\* byte k of a voice-payload filling; filling 0 is 0x00..0xFF repeating
Pat(p, k) == (k * (2 * p + 1) + 37 * p) % 256

Patterns == 0 .. (NumPatterns - 1)

\* A patch file of len bytes: identifier b0, title-length byte b1, the voice
\* region laid out from offset 2 + lt, separator bytes s0 s1 after voice 48.
FileOf(p) ==
    [i \in 1 .. p.len |->
        LET o == i - 1
            k == o - (2 + p.lt)
        IN  IF o = 0 THEN p.b0
            ELSE IF o = 1 THEN p.b1
            ELSE IF k < 0 THEN SpaceChar
            ELSE IF k < 3072 THEN Pat(p.pa, k)
            ELSE IF k = 3072 THEN p.s0
            ELSE IF k = 3073 THEN p.s1
            ELSE Pat(p.pb, k - 2)]

TitleBytes == {0, 127, 128, 255}

InParam(len, b0, b1, lt, s0, s1, pa, pb) ==
    [len |-> len, b0 |-> b0, b1 |-> b1, lt |-> lt, s0 |-> s0, s1 |-> s1,
     pa |-> pa, pb |-> pb]

\* the plain one-bank and two-bank files: no title, payload 0x00..0xFF repeating
PlainOneBank == InParam(OneBankSize, HeaderId, 0, 0, 0, 0, 0, 0)
PlainTwoBank == InParam(TwoBankSize, HeaderId, 0, 0, SepFirst, SepSecond, 0, 0)

\* one bank, laid out for the title length byte read as unsigned
OneBankInputs ==
    {InParam(OneBankSize + t, HeaderId, t, t, 0, 0, 0, 0) : t \in TitleBytes}
        \cup {InParam(OneBankSize, HeaderId, 0, 0, 0, 0, p, p) : p \in Patterns}

\* two banks with the separator in place
TwoBankInputs ==
    {InParam(TwoBankSize + t, HeaderId, t, t, SepFirst, SepSecond, 0, NumPatterns - 1) :
        t \in TitleBytes}
        \cup {InParam(TwoBankSize, HeaderId, 0, 0, SepFirst, SepSecond, p, p) : p \in Patterns}

\* two banks with one or both separator bytes wrong
BadSeparatorInputs ==
    {InParam(TwoBankSize + t, HeaderId, t, t, q[1], q[2], 0, 0) :
        t \in {0, 127},
        q \in {<<SepFirst, 0>>, <<0, SepSecond>>, <<0, 0>>, <<SepSecond, SepFirst>>}}

\* files sized for the title length byte read as a signed char
SignedInputs ==
    {InParam(n * OneBankSize + t - 256, HeaderId, t, t - 256, SepFirst, SepSecond, 0, 0) :
        t \in {128, 255}, n \in {1, 2}}

\* files of a wrong size, the short ones included
WrongSizeInputs ==
    {InParam(n, b, 0, 0, SepFirst, SepSecond, 0, 0) :
        n \in {0, 1, 2, OneBankSize - 1, OneBankSize + 1, TwoBankSize + 1},
        b \in {HeaderId, 0}}

\* right size, wrong identifier byte
BadHeaderInputs ==
    {InParam(n, 0, 0, 0, SepFirst, SepSecond, 0, 0) : n \in {OneBankSize, TwoBankSize}}

Inputs ==
    OneBankInputs \cup TwoBankInputs \cup BadSeparatorInputs \cup SignedInputs
        \cup WrongSizeInputs \cup BadHeaderInputs

\* "x", "xB", "xBa", ... : mixed case, a digit and an underscore
NameChars == <<120, 66, 97, 110, 107, 95, 48, 49, 122, 90, 113, 81>>
NameOf(n) == [i \in 1 .. n |-> NameChars[((i - 1) % Len(NameChars)) + 1]]
NameLens == {0, 1, MaxNameLen - 1, MaxNameLen, MaxNameLen + 1}

Dot == 46
\* ".syx", "_a.syx", "_b.syx"
ExtSyx == <<46, 115, 121, 120>>
SuffixA == <<95, 97>> \o ExtSyx
SuffixB == <<95, 98>> \o ExtSyx

\* main, line 78: cut the name at its last '.', if it has one
RECURSIVE LastDot(_, _)
LastDot(s, i) == IF i = 0 THEN 0 ELSE IF s[i] = Dot THEN i ELSE LastDot(s, i - 1)
DropExtension(s) ==
    LET d == LastDot(s, Len(s)) IN IF d = 0 THEN s ELSE SubSeq(s, 1, d - 1)

\* what the user passes as output_bank: the name alone or with an extension
Arguments == {NameOf(n) : n \in NameLens} \cup {NameOf(1) \o <<Dot, 109, 105, 100>>}

\* The runs tried: every input file with the one-letter name and no destination
\* file yet; the plain files with every name; the plain files with the
\* destination files already there.
Scenarios ==
    (Inputs \X {NameOf(1)} \X {FALSE})
        \cup ({PlainOneBank, PlainTwoBank} \X Arguments \X {FALSE})
        \cup ({PlainOneBank, PlainTwoBank} \X {NameOf(1)} \X {TRUE})

OldContents == <<1, 2, 3>>

(***************************************************************************)
(* read_file                                                               *)
(***************************************************************************)
\* a seekg(pos) followed by a read of n bytes succeeds (no ios failure)
ReadOK(file, pos, n) == pos >= 0 /\ pos + n <= Len(file)

\* VoicePos with the two header bytes not skipped (pos = titleOffset)
VoicePos_NoHeaderSkip(t, n, i) ==
    t + VoiceBytes * i + (IF n = AllVoices /\ i >= BankVoices THEN 2 ELSE 0)

\* read_file: the position of voice i
VoicePos(t, n, i) ==
    2 + t + VoiceBytes * i + (IF n = AllVoices /\ i >= BankVoices THEN 2 ELSE 0)

read_file_ok(file, t, n) ==
    \A i \in 0 .. (n - 1) : ReadOK(file, VoicePos(t, n, i), VoiceBytes)

read_file(file, t, n) ==
    [k \in 1 .. (VoiceBytes * n) |->
        file[VoicePos(t, n, (k - 1) \div VoiceBytes) + ((k - 1) % VoiceBytes) + 1]]

(***************************************************************************)
(* nibblize_data                                                           *)
(***************************************************************************)
\* LowNibble without the & 0x0F: the source byte goes out whole
LowNibble_NoMask(c) == IntToChar(CharToInt(c))

LowNibble(c) == IntToChar(And0F(CharToInt(c)))

\* HighNibble without the & 0x0F after the shift
HighNibble_NoMask(c) == IntToChar(Shr4(CharToInt(c)))

HighNibble(c) == IntToChar(And0F(Shr4(CharToInt(c))))

\* nibble byte k (0-based) of the encoding of the bytes of src from offset base
NibbleAt(src, base, k) ==
    IF k % 2 = 0 THEN LowNibble(src[base + (k \div 2) + 1])
    ELSE HighNibble(src[base + (k \div 2) + 1])

\* unsigned char checksum = 0; checksum += (unsigned int) byte, over the nibble
\* bytes from..to-1. The additions are mod 256, so the running sum of the loop
\* is the sum of the two halves mod 256, which keeps the evaluation shallow.
RECURSIVE SumRange(_, _, _, _)
SumRange(src, base, from, to) ==
    IF to = from THEN 0
    ELSE IF to = from + 1 THEN IntToChar(CharToInt(NibbleAt(src, base, from)))
    ELSE LET mid == (from + to) \div 2
         IN  IntToChar(SumRange(src, base, from, mid) + SumRange(src, base, mid, to))

SumNibbles(src, base, n) == SumRange(src, base, 0, n)

\* Checksum without the final & 0x7F
Checksum_NoMask(sum) == IntToChar(BitNot(AndFF(sum)) + 1)

\* checksum = ((~(checksum & 0xFF)) + 1) & 0x7F
Checksum(sum) == IntToChar(And7F(BitNot(AndFF(sum)) + 1))

\* byte j (0-based) of the packet of voice v
PacketByte(d, v, j) ==
    IF j = 0 THEN 1
    ELSE IF j = 1 THEN 0
    ELSE IF j < PacketSize - 1 THEN NibbleAt(d, v * VoiceBytes, j - 2)
    ELSE Checksum(SumNibbles(d, v * VoiceBytes, 2 * VoiceBytes))

\* NibblizeBank with the second loop's index written as in the first (i * 64 + j)
NibblizeBank_FirstLoopIndex(d, first) ==
    [k \in 1 .. (BankVoices * PacketSize) |->
        PacketByte(d, (k - 1) \div PacketSize, (k - 1) % PacketSize)]

\* the 48 packets of the bank whose first voice is first
NibblizeBank(d, first) ==
    [k \in 1 .. (BankVoices * PacketSize) |->
        PacketByte(d, first + ((k - 1) \div PacketSize), (k - 1) % PacketSize)]

nibblize_data_ok(d) == Len(d) = AllVoices * VoiceBytes \/ Len(d) = BankVoices * VoiceBytes

(***************************************************************************)
(* write_to_file                                                           *)
(***************************************************************************)
\* the 32-byte info packet: strncpy, toupper, memset of spaces, bank digit
InfoPacket(name, maxlen, digit) ==
    [i \in 1 .. InfoPacketSize |->
        LET o == i - 1
            copied == IF o < maxlen /\ o < Len(name) THEN name[o + 1] ELSE 0
            upper == IF o < maxlen THEN toupper(copied) ELSE copied
            padded == IF Len(name) < maxlen /\ o >= Len(name) /\ o < maxlen
                      THEN SpaceChar ELSE upper
        IN  IF digit # 0 /\ o = 7 THEN digit ELSE padded]

\* the 74-byte header of a bank file
BankHeader(bankId, info) ==
    [i \in 1 .. HeaderSize |->
        LET o == i - 1
        IN  IF o < 9 THEN <<240, 67, 117, 0, 0, 0, bankId, 0, 64>>[i]
            ELSE IF o < HeaderSize - 1 THEN NibbleAt(info, 0, o - 9)
            ELSE Checksum(SumNibbles(info, 0, 2 * InfoPacketSize))]

\* BankFile without the closing 0xF7
BankFile_NoEndSysex(header, split) == header \o split

BankFile(header, split) == header \o split \o <<EndSysex>>

Bank1File(name, split, two) ==
    BankFile(BankHeader(0, InfoPacket(name, IF two THEN 7 ELSE 8, IF two THEN 49 ELSE 0)),
             split)

Bank2File(name, split) == BankFile(BankHeader(1, InfoPacket(name, 7, 50)), split)

(***************************************************************************)
(* overwrite_check                                                         *)
(***************************************************************************)
\* the file after overwrite_check when the user agrees: truncated if it was there
overwrite_check(f) == IF Exists(f) THEN <<>> ELSE f

(***************************************************************************)
(* The run of main()                                                       *)
(***************************************************************************)
Init ==
    /\ charSigned \in BOOLEAN
    /\ \E sc \in Scenarios :
          /\ patfile = FileOf(sc[1])
          /\ output_bank = DropExtension(sc[2])
          /\ fs = IF sc[3] THEN [a |-> OldContents, b |-> OldContents, s |-> OldContents]
                  ELSE [a |-> NoFile, b |-> NoFile, s |-> NoFile]
    /\ fs0 = fs
    /\ answers = <<>>
    /\ pc = "header"
    /\ outcome = "running"
    /\ titleOffset = 0
    /\ length = 0
    /\ nVoices = 0
    /\ data = <<>>
    /\ splitData1 = <<>>
    /\ splitData2 = <<>>
    /\ run = 1
    /\ prevfile = <<>>

Exit(o) == pc' = "exit" /\ outcome' = o

\* lines 82-91: read byte 0 and compare it with 0x89
CheckHeader ==
    /\ pc = "header"
    /\ IF ~ReadOK(patfile, 0, 1) THEN Exit("UncaughtException")
       ELSE IF patfile[1] # HeaderId THEN Exit("InvalidHeader")
       ELSE pc' = "title" /\ outcome' = outcome
    /\ UNCHANGED <<charSigned, patfile, output_bank, fs, fs0, answers, titleOffset,
                   length, nVoices, data, splitData1, splitData2, run, prevfile>>

\* lines 93-97: the title string length, a char converted to int
ReadTitle ==
    /\ pc = "title"
    /\ IF ~ReadOK(patfile, 1, 1)
       THEN Exit("UncaughtException") /\ titleOffset' = titleOffset
       ELSE pc' = "size" /\ outcome' = outcome /\ titleOffset' = CharToInt(patfile[2])
    /\ UNCHANGED <<charSigned, patfile, output_bank, fs, fs0, answers,
                   length, nVoices, data, splitData1, splitData2, run, prevfile>>

\* lines 99-108 and the branch conditions of lines 120 and 164
CheckSize ==
    /\ pc = "size"
    /\ length' = Len(patfile)
    /\ IF length' # TwoBankSize + titleOffset /\ length' # OneBankSize + titleOffset
       THEN Exit("InvalidSize")
       ELSE /\ outcome' = outcome
            /\ pc' = IF length' = TwoBankSize + titleOffset THEN "separator" ELSE "read1"
    /\ UNCHANGED <<charSigned, patfile, output_bank, fs, fs0, answers, titleOffset,
                   nVoices, data, splitData1, splitData2, run, prevfile>>

\* line 126: the test that reports the missing separator
SeparatorMissing(b0, b1) == b0 # SepFirst /\ b1 # SepSecond

\* lines 121-129
CheckSeparator ==
    /\ pc = "separator"
    /\ nVoices' = AllVoices
    /\ IF ~ReadOK(patfile, SepAddress + titleOffset, 2) THEN Exit("UncaughtException")
       ELSE IF SeparatorMissing(patfile[SepAddress + titleOffset + 1],
                                patfile[SepAddress + titleOffset + 2])
       THEN Exit("MissingSeparator")
       ELSE pc' = "read2" /\ outcome' = outcome
    /\ UNCHANGED <<charSigned, patfile, output_bank, fs, fs0, answers, titleOffset,
                   length, data, splitData1, splitData2, run, prevfile>>

\* lines 131-132: read_file for 96 voices
ReadTwoBanks ==
    /\ pc = "read2"
    /\ IF ~read_file_ok(patfile, titleOffset, nVoices)
       THEN Exit("UncaughtException") /\ data' = data
       ELSE /\ pc' = "overwrite1" /\ outcome' = outcome
            /\ data' = read_file(patfile, titleOffset, nVoices)
    /\ UNCHANGED <<charSigned, patfile, output_bank, fs, fs0, answers, titleOffset,
                   length, nVoices, splitData1, splitData2, run, prevfile>>

\* lines 165-168: read_file for 48 voices
ReadOneBank ==
    /\ pc = "read1"
    /\ nVoices' = BankVoices
    /\ IF ~read_file_ok(patfile, titleOffset, nVoices')
       THEN Exit("UncaughtException") /\ data' = data
       ELSE /\ pc' = "overwrite" /\ outcome' = outcome
            /\ data' = read_file(patfile, titleOffset, nVoices')
    /\ UNCHANGED <<charSigned, patfile, output_bank, fs, fs0, answers, titleOffset,
                   length, splitData1, splitData2, run, prevfile>>

\* overwrite_check on one destination file: no prompt when it is not there,
\* else the user's answer decides between truncating it and exit(EXIT_FAILURE)
OverwriteStep(slot, next) ==
    /\ \E yes \in BOOLEAN :
          /\ answers' = IF Exists(fs[slot]) THEN Append(answers, yes) ELSE answers
          /\ IF Exists(fs[slot]) /\ ~yes
             THEN Exit("Aborted") /\ fs' = fs
             ELSE /\ pc' = next /\ outcome' = outcome
                  /\ fs' = [fs EXCEPT ![slot] = overwrite_check(fs[slot])]
    /\ UNCHANGED <<charSigned, patfile, output_bank, fs0, titleOffset,
                   length, nVoices, data, splitData1, splitData2, run, prevfile>>

\* line 142
OverwriteCheck1 ==
    /\ pc = "overwrite1"
    /\ OverwriteStep("a", "overwrite2")

\* line 143
OverwriteCheck2 ==
    /\ pc = "overwrite2"
    /\ OverwriteStep("b", "nibblize")

\* line 172
OverwriteCheck ==
    /\ pc = "overwrite"
    /\ OverwriteStep("s", "nibblize")

\* lines 153 and 179: nibblize_data
NibblizeData ==
    /\ pc = "nibblize"
    /\ IF ~nibblize_data_ok(data)
       THEN Exit("InvalidPayloadSize") /\ UNCHANGED <<splitData1, splitData2>>
       ELSE /\ pc' = "write" /\ outcome' = outcome
            /\ splitData1' = NibblizeBank(data, 0)
            /\ splitData2' = IF nVoices = AllVoices THEN NibblizeBank(data, BankVoices)
                             ELSE splitData2
    /\ UNCHANGED <<charSigned, patfile, output_bank, fs, fs0, answers, titleOffset,
                   length, nVoices, data, run, prevfile>>

\* lines 156 and 182: write_to_file, then return 0
WriteToFile ==
    /\ pc = "write"
    /\ pc' = "done"
    /\ outcome' = "ok"
    /\ fs' = IF nVoices = AllVoices
             THEN [fs EXCEPT !.a = Bank1File(output_bank \o SuffixA, splitData1, TRUE),
                             !.b = Bank2File(output_bank \o SuffixB, splitData2)]
             ELSE [fs EXCEPT !.s = Bank1File(output_bank \o ExtSyx, splitData1, FALSE)]
    /\ UNCHANGED <<charSigned, patfile, output_bank, fs0, answers, titleOffset,
                   length, nVoices, data, splitData1, splitData2, run, prevfile>>

\* the file with every byte of the 48 voices from voice first on complemented,
\* the voices being where read_file(t, n) finds them
ChangeVoices(file, t, n, first) ==
    [i \in 1 .. Len(file) |->
        IF /\ i - 1 >= VoicePos(t, n, first)
           /\ i - 1 < VoicePos(t, n, first) + BankVoices * VoiceBytes
        THEN 255 - file[i] ELSE file[i]]

\* After a two-bank conversion the user edits the voices of one bank in the
\* patch file (bank A after the first run, then bank B, and so on in turn) and
\* runs the program again with the same destination name: main() starts
\* afresh and finds the destination files the earlier run left.
RunAgain ==
    /\ pc = "done"
    /\ run < MaxRuns
    /\ nVoices = AllVoices
    /\ patfile' = ChangeVoices(patfile, titleOffset, nVoices,
                               IF run % 2 = 1 THEN 0 ELSE BankVoices)
    /\ prevfile' = patfile
    /\ fs0' = fs
    /\ answers' = <<>>
    /\ pc' = "header"
    /\ outcome' = "running"
    /\ titleOffset' = 0
    /\ length' = 0
    /\ nVoices' = 0
    /\ data' = <<>>
    /\ splitData1' = <<>>
    /\ splitData2' = <<>>
    /\ run' = run + 1
    /\ UNCHANGED <<charSigned, output_bank, fs>>

Next ==
    \/ CheckHeader
    \/ ReadTitle
    \/ CheckSize
    \/ CheckSeparator
    \/ ReadTwoBanks
    \/ ReadOneBank
    \/ OverwriteCheck1
    \/ OverwriteCheck2
    \/ OverwriteCheck
    \/ NibblizeData
    \/ WriteToFile
    \/ RunAgain

Spec == Init /\ [][Next]_vars

(***************************************************************************)
(* Vocabulary of the properties                                            *)
(***************************************************************************)
\* the run has ended
Terminal == pc \in {"done", "exit"}

\* read_file has returned: the voice payload is in data
Decoded ==
    \/ pc \in {"overwrite1", "overwrite2", "overwrite", "nibblize", "write", "done"}
    \/ pc = "exit" /\ outcome \in {"Aborted", "InvalidPayloadSize"}

\* the ways a run ends without a decoded payload
DecodeFailures == {"InvalidHeader", "InvalidSize", "MissingSeparator", "UncaughtException"}

\* the title length as the unsigned value of byte[1]
UnsignedTitle(file) == file[2]

\* the file is a one-bank / two-bank container by the unsigned title length
HasOneBankSize(file) ==
    Len(file) >= 2 /\ Len(file) = OneBankSize + UnsignedTitle(file)
HasTwoBankSize(file) ==
    Len(file) >= 2 /\ Len(file) = TwoBankSize + UnsignedTitle(file)

\* the two bytes at 0xC02 + title length are 0xAB 0xCD
SeparatorInPlace(file) ==
    /\ file[SepAddress + UnsignedTitle(file) + 1] = SepFirst
    /\ file[SepAddress + UnsignedTitle(file) + 2] = SepSecond

\* C1: every buffer of exactly 3074 + byte[1] bytes (byte[1] unsigned) whose
\* byte[0] is 0x89 is decoded: it is never rejected, and the payload read is
\* 48 records of 64 bytes.
C1_SingleBankDecoded ==
    (Len(patfile) >= 2 /\ patfile[1] = HeaderId /\ HasOneBankSize(patfile)) =>
        /\ outcome \notin DecodeFailures
        /\ Decoded => (nVoices = BankVoices /\ Len(data) = BankVoices * VoiceBytes)

\* C2: a buffer of exactly 6148 + titleOffset bytes with byte[0] = 0x89 is
\* decoded (96 records) if and only if the two bytes at 0xC02 + titleOffset are
\* 0xAB 0xCD; with either byte wrong the run ends in MissingSeparator and no
\* payload is produced.  Stated for the runs that read the title length as
\* the unsigned byte.
C2_SeparatorDecides ==
    (/\ pc \notin {"header", "title"}
     /\ Len(patfile) >= 2 /\ patfile[1] = HeaderId
     /\ titleOffset = UnsignedTitle(patfile)
     /\ HasTwoBankSize(patfile)) =>
        IF SeparatorInPlace(patfile)
        THEN /\ outcome \notin DecodeFailures
             /\ Decoded => (nVoices = AllVoices /\ Len(data) = AllVoices * VoiceBytes)
        ELSE /\ ~Decoded
             /\ data = <<>>
             /\ pc = "exit" => outcome = "MissingSeparator"

\* the verdict the classification order gives a buffer
Classified(file) ==
    IF Len(file) < 1 \/ file[1] # HeaderId THEN "InvalidHeader"
    ELSE IF ~HasOneBankSize(file) /\ ~HasTwoBankSize(file) THEN "InvalidSize"
    ELSE IF HasTwoBankSize(file) /\ ~SeparatorInPlace(file) THEN "MissingSeparator"
    ELSE "accepted"

\* C3: every buffer, whatever its length, is accepted or rejected with the one
\* classified error its contents call for (InvalidHeader, else InvalidSize,
\* else MissingSeparator); no run ends in an unclassified failure.
C3_EveryInputClassified ==
    /\ outcome # "UncaughtException"
    /\ outcome \in DecodeFailures => outcome = Classified(patfile)
    /\ Decoded => Classified(patfile) = "accepted"

\* C4: no destination file is written or changed before all validation,
\* the payload-size check of nibblize_data included, has passed; a run that
\* ends in a validation error leaves every destination file as it was; and a
\* two-bank run never ends with one bank file changed and the other not.
C4_NoOutputBeforeValidation ==
    /\ fs # fs0 => pc \in {"write", "done"}
    /\ (pc = "exit" /\ outcome \in DecodeFailures \cup {"InvalidPayloadSize"}) => fs = fs0
    /\ (Terminal /\ nVoices = AllVoices) => ((fs.a # fs0.a) <=> (fs.b # fs0.b))

(***************************************************************************)
(* Reading the output back                                                 *)
(***************************************************************************)
\* the sum of s[from .. to-1] as plain integers
RECURSIVE SeqSum(_, _, _)
SeqSum(s, from, to) ==
    IF to <= from THEN 0
    ELSE IF to = from + 1 THEN s[from]
    ELSE LET mid == (from + to) \div 2 IN SeqSum(s, from, mid) + SeqSum(s, mid, to)

\* the destination files this run has produced, once it is done
Produced ==
    IF pc # "done" THEN {}
    ELSE IF nVoices = AllVoices THEN {fs.a, fs.b}
    ELSE {fs.s}

\* the two's-complement negation mod 256 of sum, masked with 0x7F
NegMasked(sum) == ((256 - (sum % 256)) % 256) % 128

\* in s, the n nibble bytes from 0-based offset off are followed by their checksum
ChecksumFollows(s, off, n) ==
    LET sum == SeqSum(s, off + 1, off + n + 1)
        ck == s[off + n + 1]
    IN  /\ ck = NegMasked(sum)
        /\ ck \in 0 .. 127
        /\ (sum + ck) % 128 = 0

\* every packet of a nibblized bank is 01 00, the nibble pairs of its 64
\* source bytes low nibble first, and one more byte
PacketsEncode(split, d, first) ==
    /\ Len(split) = BankVoices * PacketSize
    /\ \A v \in 0 .. (BankVoices - 1) :
          /\ split[v * PacketSize + 1] = 1
          /\ split[v * PacketSize + 2] = 0
          /\ \A j \in 0 .. (VoiceBytes - 1) :
                LET b == d[(first + v) * VoiceBytes + j + 1]
                    low == split[v * PacketSize + 2 + 2 * j + 1]
                    high == split[v * PacketSize + 2 + 2 * j + 2]
                IN  /\ low = b % 16
                    /\ high = (b \div 16) % 16
                    /\ low + 16 * high = b

\* C5: the packet nibblize_data makes of every 64-byte voice record is 131
\* bytes: 01 00, then for each source byte b the pair (b & 0x0F, (b >> 4) & 0x0F),
\* low nibble first; low | (high << 4) gives the source byte back.
C5_NibblePairsRoundTrip ==
    pc = "write" =>
        /\ PacketsEncode(splitData1, data, 0)
        /\ nVoices = AllVoices => PacketsEncode(splitData2, data, BankVoices)

\* a two-bank payload holding every byte value has been nibblized by a build
\* whose char is signed
C5_Witness ==
    /\ pc = "write"
    /\ charSigned
    /\ nVoices = AllVoices
    /\ {data[i] : i \in 1 .. 256} = 0 .. 255
    /\ Len(splitData2) = BankVoices * PacketSize

\* C6: the checksum byte of every voice packet of bank A and bank B, and of
\* the nibblized label block of every bank file, is the negation mod 256 of
\* the sum of the nibble bytes masked with 0x7F: it is in 0x00..0x7F and
\* (sum + checksum) & 0x7F = 0.
C6_ChecksumLaw ==
    /\ pc = "write" =>
          \A v \in 0 .. (BankVoices - 1) :
              /\ ChecksumFollows(splitData1, v * PacketSize + 2, 2 * VoiceBytes)
              /\ nVoices = AllVoices =>
                    ChecksumFollows(splitData2, v * PacketSize + 2, 2 * VoiceBytes)
    /\ \A f \in Produced : ChecksumFollows(f, 9, 2 * InfoPacketSize)

\* two bank files are written; a voice packet and a label block have a checksum
\* other than zero
C6_Witness ==
    /\ pc = "done"
    /\ nVoices = AllVoices
    /\ splitData1[PacketSize] # 0
    /\ splitData2[PacketSize] # 0
    /\ fs.a[HeaderSize] # 0
    /\ fs.b[HeaderSize] # 0

\* the layout of a bank file
BankLayout(f, bankId, split) ==
    /\ Len(f) = 6363
    /\ SubSeq(f, 1, 9) = <<240, 67, 117, 0, 0, 0, bankId, 0, 64>>
    /\ \A i \in 10 .. (HeaderSize - 1) : f[i] \in 0 .. 15
    /\ f[HeaderSize] \in 0 .. 127
    /\ SubSeq(f, HeaderSize + 1, HeaderSize + BankVoices * PacketSize) = split
    /\ Len(split) = BankVoices * PacketSize
    /\ \A v \in 0 .. (BankVoices - 1) :
          /\ f[HeaderSize + v * PacketSize + 1] = 1
          /\ f[HeaderSize + v * PacketSize + 2] = 0
    /\ f[6363] = EndSysex

\* C7: every bank file of a successful conversion is 6363 bytes: F0 43 75 00
\* 00 00 <bankID> (00 for bank A and for a single bank, 01 for bank B), 00 40,
\* the 65-byte label block, 48 packets of 131 bytes, F7; a single-bank input
\* gives one such file and a two-bank input two.
C7_BankFileLayout ==
    pc = "done" =>
        IF nVoices = AllVoices
        THEN /\ BankLayout(fs.a, 0, splitData1)
             /\ BankLayout(fs.b, 1, splitData2)
             /\ fs.s = fs0.s
        ELSE /\ nVoices = BankVoices
             /\ BankLayout(fs.s, 0, splitData1)
             /\ fs.a = fs0.a
             /\ fs.b = fs0.b

\* a two-bank conversion has written both files over older ones
C7_Witness ==
    /\ pc = "done"
    /\ nVoices = AllVoices
    /\ answers = <<TRUE, TRUE>>
    /\ Len(fs.a) = 6363
    /\ Len(fs.b) = 6363

\* the 32-byte label source a bank file carries: its label block de-nibblized
LabelOf(f) == [i \in 1 .. InfoPacketSize |-> f[9 + 2 * i - 1] + 16 * f[9 + 2 * i]]

\* the label source the destination name calls for: the name upper-cased,
\* cut or space-padded to width characters, the bank digit if any, then zeros
LabelFor(name, width, digit) ==
    [i \in 1 .. InfoPacketSize |->
        IF i <= width THEN (IF i <= Len(name) THEN toupper(name[i]) ELSE SpaceChar)
        ELSE IF i = 8 /\ digit # 0 THEN digit
        ELSE 0]

\* C8: the label source of each bank is built from the destination name the
\* user gave, without extension or bank suffix: in two-bank mode the name
\* upper-cased, cut or space-padded to 7 characters, then '1' for bank A and
\* '2' for bank B; in single-bank mode the name upper-cased, cut or
\* space-padded to 8 characters; bytes 8..31 are zero.
C8_LabelFromDestinationName ==
    pc = "done" =>
        IF nVoices = AllVoices
        THEN /\ LabelOf(fs.a) = LabelFor(output_bank, 7, 49)
             /\ LabelOf(fs.b) = LabelFor(output_bank, 7, 50)
        ELSE LabelOf(fs.s) = LabelFor(output_bank, 8, 0)

\* the packet of the 64 bytes 0x00..0x3F: 01 00, the pairs (b & 0x0F, b >> 4)
\* for b = 0x00..0x3F, checksum 0x40
SequentialPacket ==
    <<1, 0>> \o [k \in 1 .. 128 |->
                    IF k % 2 = 1 THEN ((k - 1) \div 2) % 16 ELSE ((k - 1) \div 2) \div 16]
             \o <<64>>

\* 01 00, 128 bytes of 00, checksum 00
AllZeroPacket == <<1, 0>> \o [k \in 1 .. 128 |-> 0] \o <<0>>

\* the 3074-byte buffer 89 00 followed by 0x00..0xFF repeating is being converted
SequentialScenario == Len(patfile) = OneBankSize /\ patfile = FileOf(PlainOneBank)

\* C9 as stated: for the 3074-byte buffer 89 00 followed by 3072 bytes
\* 0x00..0xFF repeating, decode gives 48 records of 64 bytes and the packet of
\* voice 0 is 01 00, 128 bytes of 00, checksum 00.
C9_VoiceZeroAllZero ==
    SequentialScenario =>
        /\ outcome \notin DecodeFailures
        /\ Decoded => (nVoices = BankVoices /\ Len(data) = BankVoices * VoiceBytes)
        /\ pc = "write" => SubSeq(splitData1, 1, PacketSize) = AllZeroPacket

\* C9 amended: for that buffer decode gives 48 records of 64 bytes, voice 0 is
\* the bytes 0x00..0x3F, and its packet is 01 00, the nibble pairs
\* (b & 0x0F, b >> 4) of b = 0x00..0x3F in order, checksum 0x40.
C9_VoiceZeroSequential ==
    SequentialScenario =>
        /\ outcome \notin DecodeFailures
        /\ Decoded => /\ nVoices = BankVoices
                      /\ Len(data) = BankVoices * VoiceBytes
                      /\ SubSeq(data, 1, VoiceBytes) = [k \in 1 .. VoiceBytes |-> k - 1]
        /\ pc = "write" => SubSeq(splitData1, 1, PacketSize) = SequentialPacket

\* that buffer has been decoded and nibblized
C9_Witness ==
    /\ SequentialScenario
    /\ pc = "write"
    /\ Len(splitData1) = BankVoices * PacketSize

\* the two files differ, and only in bytes of the 48 voices from voice first on
DiffersOnlyInVoices(f, g, first) ==
    /\ Len(f) = Len(g)
    /\ f # g
    /\ \A i \in 1 .. Len(f) :
          f[i] # g[i] =>
              /\ i - 1 >= VoicePos(titleOffset, AllVoices, first)
              /\ i - 1 < VoicePos(titleOffset, AllVoices, first) + BankVoices * VoiceBytes

\* C10: two accepted two-bank inputs converted to the same destination name
\* that differ only in the bytes of voices 48..95 give the same bank A file
\* byte for byte, and two that differ only in voices 0..47 the same bank B file.
C10_BankIndependence ==
    (pc = "done" /\ run > 1 /\ nVoices = AllVoices) =>
        /\ DiffersOnlyInVoices(patfile, prevfile, BankVoices) => fs.a = fs0.a
        /\ DiffersOnlyInVoices(patfile, prevfile, 0) => fs.b = fs0.b

\* a conversion after only voices 48..95 were changed, following one after
\* only voices 0..47 were changed: bank B's file has changed, and both files
\* of both runs are complete
C10_Witness ==
    /\ pc = "done"
    /\ run = 3
    /\ nVoices = AllVoices
    /\ DiffersOnlyInVoices(patfile, prevfile, BankVoices)
    /\ fs.b # fs0.b
    /\ Len(fs0.a) = 6363
    /\ Len(fs.a) = 6363

\* the source byte that nibble pair j of packet k of a nibblized bank encodes
PairValue(split, k, j) ==
    split[k * PacketSize + 2 + 2 * j + 1] + 16 * split[k * PacketSize + 2 + 2 * j + 2]

\* the bank is 48 packets with nothing between them, and packet k encodes the
\* 64 bytes of file from 0-based offset start + 64k on
PacketsEncodeContainer(split, file, start) ==
    /\ Len(split) = BankVoices * PacketSize
    /\ \A k \in 0 .. (BankVoices - 1) :
          \A j \in 0 .. (VoiceBytes - 1) :
              LET o == start + VoiceBytes * k + j
              IN  /\ o >= 0
                  /\ o < Len(file)
                  /\ PairValue(split, k, j) = file[o + 1]

\* C11: for every accepted input, packet k of bank A encodes the 64 container
\* bytes from offset 2 + titleOffset + 64k on, and for a two-bank input packet
\* k of bank B the 64 bytes from 2 + titleOffset + 3072 + 2 + 64k on,
\* titleOffset being the title length byte[1] (0..255); the packets follow one
\* another in voice order with nothing between them.
C11_PacketsEncodeContainerBytes ==
    pc = "write" =>
        /\ PacketsEncodeContainer(splitData1, patfile, 2 + UnsignedTitle(patfile))
        /\ nVoices = AllVoices =>
              PacketsEncodeContainer(splitData2, patfile,
                  2 + UnsignedTitle(patfile) + BankVoices * VoiceBytes + 2)

\* 0-based offset o of a bank file holds a nibble byte: it lies in the label
\* block or in a packet, and is neither a packet's 01 00 nor a checksum
IsNibbleOffset(o) ==
    \/ o >= 9 /\ o < HeaderSize - 1
    \/ /\ o >= HeaderSize
       /\ o < HeaderSize + BankVoices * PacketSize
       /\ (o - HeaderSize) % PacketSize >= 2
       /\ (o - HeaderSize) % PacketSize < PacketSize - 1

\* the file opens with F0, closes with F7, and every byte between them is a
\* 7-bit value, the nibble bytes 4-bit values
SevenBitClean(f) ==
    /\ Len(f) >= 2
    /\ f[1] = 240
    /\ f[Len(f)] = EndSysex
    /\ \A i \in 2 .. (Len(f) - 1) :
          /\ f[i] \in 0 .. 127
          /\ IsNibbleOffset(i - 1) => f[i] \in 0 .. 15

\* C12: every produced bank file is 7-bit clean between its framing bytes:
\* byte 0 is 0xF0, the last byte is 0xF7, and every byte strictly between
\* them is in 0x00..0x7F (the nibble bytes in 0x00..0x0F), whatever the voice
\* payload (bytes >= 0x80 included) and the destination name.
C12_SevenBitClean == \A f \in Produced : SevenBitClean(f)

\* two bank files have been produced by a build whose char is signed, from
\* voices holding 0x80 and 0xFF and a name of mixed case
C12_Witness ==
    /\ pc = "done"
    /\ charSigned
    /\ nVoices = AllVoices
    /\ Len(output_bank) > 1
    /\ \E i \in 1 .. 256 : data[i] = 128
    /\ \E i \in 1 .. 256 : data[i] = 255
    /\ Len(fs.a) = 6363
    /\ Len(fs.b) = 6363

====
